---- MODULE Spec2Model ----
(***************************************************************************)
(* Model of the Bunny.net chapter processor:                               *)
(*   - parseCsvToBunnyChapters and updateBunnyChapters                     *)
(*     (src/services/bunnyService.ts),                                     *)
(*   - handleBunnyUpdate (src/App.tsx),                                    *)
(*   - the serverless proxy (src/api/bunny.js).                            *)
(* Text is modelled as a sequence of one-character strings, so that        *)
(* split, trim, parseInt, startsWith and includes are computed the way     *)
(* the JavaScript runtime computes them.                                   *)
(***************************************************************************)
EXTENDS Integers, Sequences, FiniteSets, TLC

VARIABLES
  csvContent,   \* the csvContent argument of the parser / of updateBunnyChapters
  chapters,     \* the BunnyChapter[] the parser returned
  cpc,          \* where the browser-side call stands
  env,          \* process.env of the proxy: a sequence of [name, value], in key order
  req,          \* the request the proxy received: [method, body]
  ppc,          \* where the proxy's handler stands: idle, awaitUpstream, done
  lookup,       \* the handler's locals targetLibId, apiKey, usedEnvKey
  steps,        \* the stages of the handler that ran, in order
  upstream,     \* the requests the proxy made to video.bunnycdn.com
  res,          \* the response the proxy sent: [status, headers, body]
  bunnyStatus,  \* React state of App: IDLE, UPLOADING, SUCCESS, ERROR
  bunnyError,   \* React state of App: the error shown, empty for null
  call,         \* the arguments of the running updateBunnyChapters call and who made it
  error,        \* the message of the Error the call rejected with
  timer,        \* the call's setTimeout: none, armed, cleared, fired
  fetches,      \* the requests the call issued with fetch
  response      \* the status line the call received from /api/bunny

parserVars == <<csvContent, chapters, cpc>>

proxyVars == <<env, req, ppc, lookup, steps, upstream, res>>

uiVars == <<bunnyStatus, bunnyError>>

callVars == <<call, error, timer, fetches, response>>

vars == <<parserVars, proxyVars, uiVars, callVars>>

(***************************************************************************)
(* Bounds of the model.                                                    *)
(***************************************************************************)
\* Number of fields (separated by "," or "\n") of an enumerated CSV text.
MaxFields == 6

\* Number of variables of an enumerated process.env.
MaxEnv == 2

(***************************************************************************)
(* Constants of the program.                                               *)
(***************************************************************************)
\* setTimeout(() => controller.abort(), 15000)
TimeoutMs == 15000

(***************************************************************************)
(* String primitives of the JavaScript runtime.                            *)
(***************************************************************************)
\* White space as String.prototype.trim and parseInt see it.
WhiteSpace == {" ", "\t", "\r", "\n"}

Digits == {"0", "1", "2", "3", "4", "5", "6", "7", "8", "9"}

DigitVal(c) ==
  CASE c = "0" -> 0 [] c = "1" -> 1 [] c = "2" -> 2 [] c = "3" -> 3
    [] c = "4" -> 4 [] c = "5" -> 5 [] c = "6" -> 6 [] c = "7" -> 7
    [] c = "8" -> 8 [] c = "9" -> 9

RECURSIVE TrimStart(_)
TrimStart(s) ==
  IF s # <<>> /\ Head(s) \in WhiteSpace THEN TrimStart(Tail(s)) ELSE s

RECURSIVE TrimEnd(_)
TrimEnd(s) ==
  IF s # <<>> /\ s[Len(s)] \in WhiteSpace
  THEN TrimEnd(SubSeq(s, 1, Len(s) - 1))
  ELSE s

\* String.prototype.trim
Trim(s) == TrimEnd(TrimStart(s))

RECURSIVE SplitFrom(_, _, _, _)
SplitFrom(s, sep, i, cur) ==
  IF i > Len(s) THEN <<cur>>
  ELSE IF s[i] = sep THEN <<cur>> \o SplitFrom(s, sep, i + 1, <<>>)
  ELSE SplitFrom(s, sep, i + 1, Append(cur, s[i]))

\* String.prototype.split with a one-character separator: "" splits to [""].
Split(s, sep) == SplitFrom(s, sep, 1, <<>>)

RECURSIVE Join(_, _)
\* Array.prototype.join
Join(parts, sep) ==
  IF parts = <<>> THEN <<>>
  ELSE IF Len(parts) = 1 THEN parts[1]
  ELSE parts[1] \o <<sep>> \o Join(Tail(parts), sep)

\* Array.prototype.slice(from) with a 0-based index.
Slice(parts, from) == SubSeq(parts, from + 1, Len(parts))

\* String.prototype.startsWith
StartsWith(s, p) == Len(p) <= Len(s) /\ SubSeq(s, 1, Len(p)) = p

\* String.prototype.endsWith
EndsWith(s, p) == Len(p) <= Len(s) /\ SubSeq(s, Len(s) - Len(p) + 1, Len(s)) = p

\* String.prototype.includes: p occurs somewhere in s (always, when p is empty).
Includes(s, p) ==
  \E i \in 0..(Len(s) - Len(p)) : SubSeq(s, i + 1, i + Len(p)) = p

RECURSIVE DigitRun(_, _)
\* Value of the longest prefix of decimal digits of s, continuing from acc.
DigitRun(s, acc) ==
  IF s # <<>> /\ Head(s) \in Digits
  THEN DigitRun(Tail(s), 10 * acc + DigitVal(Head(s)))
  ELSE acc

NaN == [nan |-> TRUE, val |-> 0]

Num(n) == [nan |-> FALSE, val |-> n]

isNaN(x) == x.nan

\* parseInt(s, 10): skips leading white space, takes an optional sign, then
\* the longest run of digits; NaN when there is no digit; the rest is ignored.
parseInt(s) ==
  LET t    == TrimStart(s)
      neg  == t # <<>> /\ Head(t) = "-"
      sgn  == t # <<>> /\ Head(t) \in {"-", "+"}
      body == IF sgn THEN Tail(t) ELSE t
  IN  IF body = <<>> \/ Head(body) \notin Digits THEN NaN
      ELSE IF neg THEN Num(0 - DigitRun(body, 0))
      ELSE Num(DigitRun(body, 0))

(***************************************************************************)
(* parseCsvToBunnyChapters (src/services/bunnyService.ts).                 *)
(***************************************************************************)
RECURSIVE FilterNonBlank(_)
\* .filter(line => line.trim() !== '')
FilterNonBlank(ls) ==
  IF ls = <<>> THEN <<>>
  ELSE IF Trim(Head(ls)) # <<>> THEN <<Head(ls)>> \o FilterNonBlank(Tail(ls))
  ELSE FilterNonBlank(Tail(ls))

\* Faulty title: only the third field, what follows a later comma is lost.
LineTitleThirdFieldOnly(parts) == Trim(parts[3])

\* The title of a line: parts.slice(2).join(',').trim()
LineTitle(parts) == Trim(Join(Slice(parts, 2), ","))

\* The body of the for loop: the records one line pushes (none or one).
ParseLine(line) ==
  LET parts == Split(line, ",")
  IN  IF Len(parts) >= 3
      THEN LET start == parseInt(Trim(parts[1]))
               end   == parseInt(Trim(parts[2]))
               title == LineTitle(parts)
           IN  IF ~isNaN(start) /\ ~isNaN(end) /\ title # <<>>
               THEN <<[start |-> start.val, end |-> end.val, title |-> title]>>
               ELSE <<>>
      ELSE <<>>

RECURSIVE ParseLines(_)
ParseLines(ls) ==
  IF ls = <<>> THEN <<>> ELSE ParseLine(Head(ls)) \o ParseLines(Tail(ls))

parseCsvToBunnyChapters(csv) ==
  ParseLines(FilterNonBlank(Split(csv, "\n")))

(***************************************************************************)
(* The proxy (src/api/bunny.js).  A text is a sequence of strings: single  *)
(* characters where the code looks inside the text (names of variables,    *)
(* library IDs), whole opaque pieces elsewhere (messages, credentials,     *)
(* the provider's reply).                                                  *)
(***************************************************************************)
KeyPrefix == <<"B", "U", "N", "N", "Y", "_", "K", "E", "Y", "_">>

BunnyPrefix == <<"B", "U", "N", "N", "Y", "_">>

GlobalKeyName == <<"B", "U", "N", "N", "Y", "_", "A", "P", "I", "_", "K", "E", "Y">>

CorsHeaders ==
  { "Access-Control-Allow-Credentials", "Access-Control-Allow-Origin",
    "Access-Control-Allow-Methods", "Access-Control-Allow-Headers" }

\* A JSON object with no field; also the body of a response that has none.
EmptyObject == [k \in {} |-> <<>>]

\* process.env[name]: the value, the empty text when the variable is unset
\* (undefined and '' are both falsy, and the handler only tests and forwards).
EnvGet(e, name) ==
  IF \E i \in 1..Len(e) : e[i].name = name
  THEN e[CHOOSE i \in 1..Len(e) : e[i].name = name].value
  ELSE <<>>

\* k => k.startsWith('BUNNY_KEY_') && k.includes(targetLibId)
ScanMatches(name, targetLibId) ==
  StartsWith(name, KeyPrefix) /\ Includes(name, targetLibId)

RECURSIVE FindFrom(_, _, _)
FindFrom(e, targetLibId, i) ==
  IF i > Len(e) THEN 0
  ELSE IF ScanMatches(e[i].name, targetLibId) THEN i
  ELSE FindFrom(e, targetLibId, i + 1)

\* Object.keys(process.env).find(...): the index of the first match, 0 for
\* undefined.
FindKey(e, targetLibId) == FindFrom(e, targetLibId, 1)

\* let apiKey = null; let usedEnvKey = null;
NoKey == [apiKey |-> <<>>, usedEnvKey |-> <<>>]

\* A. Direct Lookup
DirectLookup(e, targetLibId) ==
  LET directKey == KeyPrefix \o targetLibId
  IN  IF EnvGet(e, directKey) # <<>>
      THEN [apiKey |-> EnvGet(e, directKey), usedEnvKey |-> directKey]
      ELSE NoKey

\* B. Scan Lookup (if direct not found)
ScanLookup(e, targetLibId, found) ==
  IF found.apiKey = <<>>
  THEN LET foundKey == FindKey(e, targetLibId)
       IN  IF foundKey # 0
           THEN [apiKey |-> e[foundKey].value, usedEnvKey |-> e[foundKey].name]
           ELSE found
  ELSE found

\* C. Global Fallback (if specific not found)
GlobalFallback(e, found) ==
  IF found.apiKey = <<>> /\ EnvGet(e, GlobalKeyName) # <<>>
  THEN [apiKey |-> EnvGet(e, GlobalKeyName),
        usedEnvKey |-> GlobalKeyName \o <<" (Global Fallback)">>]
  ELSE found

\* Faulty order: the global fallback wins over the library's own variables.
ResolveKeyGlobalFirst(e, targetLibId) ==
  IF EnvGet(e, GlobalKeyName) # <<>>
  THEN GlobalFallback(e, NoKey)
  ELSE ScanLookup(e, targetLibId, DirectLookup(e, targetLibId))

\* The three tiers, as the handler runs them.
ResolveKey(e, targetLibId) ==
  GlobalFallback(e, ScanLookup(e, targetLibId, DirectLookup(e, targetLibId)))

RECURSIVE BunnyNames(_)
\* Object.keys(process.env).filter(k => k.startsWith('BUNNY_'))
BunnyNames(e) ==
  IF e = <<>> THEN <<>>
  ELSE IF StartsWith(Head(e).name, BunnyPrefix)
       THEN <<Head(e).name>> \o BunnyNames(Tail(e))
       ELSE BunnyNames(Tail(e))

\* Faulty debug help: the variables are listed with their values.
VisibleKeysWithValues(e) ==
  Join([i \in 1..Len(e) |-> e[i].name \o <<"=">> \o e[i].value], ", ")

\* visibleKeys || "None detected starting with BUNNY_"
VisibleKeys(e) ==
  IF Join(BunnyNames(e), ", ") # <<>>
  THEN Join(BunnyNames(e), ", ")
  ELSE <<"None detected starting with BUNNY_">>

\* body.<k> of the parsed body, the empty text for undefined.
Field(payload, k) == IF k \in DOMAIN payload THEN payload[k] ELSE <<>>

\* const targetLibId = String(libraryId || '').trim()
TargetLibId(payload) == Trim(Field(payload, "libraryId"))

\* Faulty gate: the library ID is tested before it is trimmed.
FieldsMissingUntrimmed(payload) ==
  \/ Field(payload, "libraryId") = <<>>
  \/ Field(payload, "videoId") = <<>>
  \/ "chapters" \notin DOMAIN payload

\* !targetLibId || !videoId || !chapters: an empty text is falsy, an array
\* (the empty one too) is truthy, undefined is falsy.
FieldsMissing(payload) ==
  \/ TargetLibId(payload) = <<>>
  \/ Field(payload, "videoId") = <<>>
  \/ "chapters" \notin DOMAIN payload

\* body = JSON.parse(body) when it is a string; then body || {}
ParsedBody(body) == IF body.kind = "none" THEN EmptyObject ELSE body.payload

\* fetch(url, {method: 'POST', headers: {AccessKey: apiKey, ...}, body})
UpstreamRequest(payload, apiKey) ==
  [method    |-> "POST",
   library   |-> TargetLibId(payload),
   video     |-> payload.videoId,
   AccessKey |-> apiKey,
   body      |-> [chapters |-> payload.chapters]]

Reply(status, body) == [status |-> status, headers |-> CorsHeaders, body |-> body]

NoReply == [status |-> 0, headers |-> {}, body |-> EmptyObject]

\* The 500 answer of a request for which no credential was found.
NoKeyReply(e, targetLibId) ==
  Reply(500,
    [error |-> <<"Server Error: No API Key found for Library ID ">> \o targetLibId \o <<".">>,
     details |-> <<"Checked for BUNNY_KEY_">> \o targetLibId
                   \o <<" or variables containing '">> \o targetLibId
                   \o <<"' or BUNNY_API_KEY.">>,
     availableEnvVars |-> VisibleKeys(e)])

\* Faulty handler: the method is never looked at.
HandlerRunNoMethodGate(e, r) ==
  LET payload == ParsedBody(r.body)
      found   == ResolveKey(e, TargetLibId(payload))
      none    == [targetLibId |-> <<>>, apiKey |-> <<>>, usedEnvKey |-> <<>>]
  IN  IF r.body.kind = "string" /\ ~r.body.valid
      THEN [res |-> Reply(400, [error |-> <<"Invalid JSON body">>]), calls |-> <<>>,
            lookup |-> none, steps |-> <<"cors", "parse">>]
      ELSE IF FieldsMissing(payload)
      THEN [res |-> Reply(400, [error |-> <<"Missing required fields: libraryId, videoId, or chapters.">>]),
            calls |-> <<>>,
            lookup |-> [none EXCEPT !.targetLibId = TargetLibId(payload)],
            steps |-> <<"cors", "parse", "fields">>]
      ELSE IF found.apiKey = <<>>
      THEN [res |-> NoKeyReply(e, TargetLibId(payload)), calls |-> <<>>,
            lookup |-> [targetLibId |-> TargetLibId(payload), apiKey |-> found.apiKey,
                        usedEnvKey |-> found.usedEnvKey],
            steps |-> <<"cors", "parse", "fields", "lookup">>]
      ELSE [res |-> NoReply,
            calls |-> <<UpstreamRequest(payload, found.apiKey)>>,
            lookup |-> [targetLibId |-> TargetLibId(payload), apiKey |-> found.apiKey,
                        usedEnvKey |-> found.usedEnvKey],
            steps |-> <<"cors", "parse", "fields", "lookup", "forward">>]

\* The handler from its entry to its first await or its return: what it
\* answers (NoReply when it awaits the provider), the request it makes to
\* the provider (none or one), its locals and the stages it ran.
HandlerRun(e, r) ==
  LET payload == ParsedBody(r.body)
      found   == ResolveKey(e, TargetLibId(payload))
      none    == [targetLibId |-> <<>>, apiKey |-> <<>>, usedEnvKey |-> <<>>]
  IN  IF r.method = "OPTIONS"
      THEN [res |-> Reply(200, EmptyObject), calls |-> <<>>, lookup |-> none,
            steps |-> <<"cors", "options">>]
      ELSE IF r.method # "POST"
      THEN [res |-> Reply(405, [error |-> <<"Method Not Allowed">>]), calls |-> <<>>,
            lookup |-> none, steps |-> <<"cors", "method">>]
      ELSE IF r.body.kind = "string" /\ ~r.body.valid
      THEN [res |-> Reply(400, [error |-> <<"Invalid JSON body">>]), calls |-> <<>>,
            lookup |-> none, steps |-> <<"cors", "method", "parse">>]
      ELSE IF FieldsMissing(payload)
      THEN [res |-> Reply(400, [error |-> <<"Missing required fields: libraryId, videoId, or chapters.">>]),
            calls |-> <<>>,
            lookup |-> [none EXCEPT !.targetLibId = TargetLibId(payload)],
            steps |-> <<"cors", "method", "parse", "fields">>]
      ELSE IF found.apiKey = <<>>
      THEN [res |-> NoKeyReply(e, TargetLibId(payload)), calls |-> <<>>,
            lookup |-> [targetLibId |-> TargetLibId(payload), apiKey |-> found.apiKey,
                        usedEnvKey |-> found.usedEnvKey],
            steps |-> <<"cors", "method", "parse", "fields", "lookup">>]
      ELSE [res |-> NoReply,
            calls |-> <<UpstreamRequest(payload, found.apiKey)>>,
            lookup |-> [targetLibId |-> TargetLibId(payload), apiKey |-> found.apiKey,
                        usedEnvKey |-> found.usedEnvKey],
            steps |-> <<"cors", "method", "parse", "fields", "lookup", "forward">>]

\* What the handler answers once the provider replied.
RelayReply(reply) ==
  IF ~reply.ok
  THEN Reply(reply.status,
         [error |-> <<"Bunny.net Refused (Status ", ToString(reply.status), ")">>,
          details |-> reply.text])
  ELSE IF reply.json
  THEN Reply(200, [success |-> <<"true">>, data |-> reply.text])
  ELSE Reply(200, [success |-> <<"true">>,
                   message |-> <<"Updated, but response was not JSON">>,
                   raw |-> reply.text])

\* catch (error): res.status(500).json({error: `Internal Server Error: ${error.message}`})
CrashReply(message) ==
  Reply(500, [error |-> <<"Internal Server Error: ">> \o message])

(***************************************************************************)
(* Inputs of the proxy.                                                    *)
(***************************************************************************)
EnvNames ==
  { KeyPrefix \o <<"1", "2">>,
    KeyPrefix \o <<"N", "A", "M", "E", "_", "1", "2">>,
    KeyPrefix \o <<"N", "A", "M", "E", "_", "1", "2", "3">>,
    GlobalKeyName,
    BunnyPrefix \o <<"C", "D", "N">>,
    <<"P", "A", "T", "H">> }

\* A variable is empty or holds a credential.
EnvValues == { <<>>, <<"k1">>, <<"k2">> }

LibraryIds == { <<" ", "1", "2", " ">>, <<"1", "2", "3">>, <<"K", "E", "Y">>, <<" ">> }

VideoIds == { <<"v", "1">> }

ChapterLists == { <<>>, <<[start |-> 0, end |-> 59, title |-> <<"a">>]>> }

PayloadOf(D, l, v, c) ==
  [k \in D |-> IF k = "libraryId" THEN l ELSE IF k = "videoId" THEN v ELSE c]

Payloads ==
  { PayloadOf(D, l, v, c) :
      D \in SUBSET {"libraryId", "videoId", "chapters"},
      l \in LibraryIds, v \in VideoIds, c \in ChapterLists }

Bodies ==
  { [kind |-> "none", valid |-> TRUE, payload |-> EmptyObject],
    [kind |-> "string", valid |-> FALSE, payload |-> EmptyObject] }
  \cup { [kind |-> k, valid |-> TRUE, payload |-> p] : k \in {"string", "object"}, p \in Payloads }

\* The methods the handler tells apart: the preflight, POST, any other.
OtherMethods == { "OPTIONS", "GET", "DELETE" }

\* What a request that is not a POST may carry: nothing, a string that is
\* not JSON, a complete update.
OtherBodies ==
  { [kind |-> "none", valid |-> TRUE, payload |-> EmptyObject],
    [kind |-> "string", valid |-> FALSE, payload |-> EmptyObject],
    [kind |-> "object", valid |-> TRUE,
     payload |-> PayloadOf({"libraryId", "videoId", "chapters"}, <<" ", "1", "2", " ">>,
                           <<"v", "1">>, <<[start |-> 0, end |-> 59, title |-> <<"a">>]>>)] }

Requests ==
  { [method |-> m, body |-> b] : m \in OtherMethods, b \in OtherBodies }
  \cup { [method |-> "POST", body |-> b] : b \in Bodies }

\* What the provider may answer: accepted with a JSON or a plain text,
\* refused.
UpstreamReplies ==
  { [ok |-> TRUE, status |-> 200, json |-> TRUE, text |-> <<"{\"success\":true}">>],
    [ok |-> TRUE, status |-> 200, json |-> FALSE, text |-> <<"OK">>],
    [ok |-> FALSE, status |-> 401, json |-> TRUE,
     text |-> <<"{\"Message\":\"Authorization has been denied for this request.\"}">>],
    [ok |-> FALSE, status |-> 404, json |-> FALSE, text |-> <<"Not Found">>] }

\* The message of the error a failed fetch throws.
FetchErrors == { <<"fetch failed">> }

(***************************************************************************)
(* The state of each part before anything happened.                        *)
(***************************************************************************)
ParserIdle ==
  /\ csvContent = <<>>
  /\ chapters = <<>>
  /\ cpc = "idle"

ProxyIdle ==
  /\ req = [method |-> "", body |-> [kind |-> "none", valid |-> TRUE, payload |-> EmptyObject]]
  /\ ppc = "idle"
  /\ lookup = [targetLibId |-> <<>>, apiKey |-> <<>>, usedEnvKey |-> <<>>]
  /\ steps = <<>>
  /\ upstream = <<>>
  /\ res = NoReply

UiIdle ==
  /\ bunnyStatus = "IDLE"
  /\ bunnyError = <<>>

CallIdle ==
  /\ call = [via |-> "none", apiKey |-> <<>>, libraryId |-> <<>>, videoId |-> <<>>]
  /\ error = <<>>
  /\ timer = [state |-> "none", delay |-> 0]
  /\ fetches = <<>>
  /\ response = [ok |-> FALSE, status |-> 0]

(***************************************************************************)
(* Specification of the proxy: a deployment's environment, one request.    *)
(***************************************************************************)
InitProxy ==
  /\ \E n \in 0..MaxEnv :
       \E names \in [1..n -> EnvNames], values \in [1..n -> EnvValues] :
         /\ \A i, j \in 1..n : names[i] = names[j] => i = j
         /\ env = [i \in 1..n |-> [name |-> names[i], value |-> values[i]]]
  /\ ProxyIdle
  /\ ParserIdle
  /\ UiIdle
  /\ CallIdle

\* module.exports = async (req, res) => { ... } up to the await of fetch.
ProxyHandle ==
  /\ ppc = "idle"
  /\ \E r \in Requests :
       LET run == HandlerRun(env, r)
       IN  /\ req' = r
           /\ res' = run.res
           /\ upstream' = upstream \o run.calls
           /\ lookup' = run.lookup
           /\ steps' = run.steps
           /\ ppc' = IF run.calls = <<>> THEN "done" ELSE "awaitUpstream"
  /\ UNCHANGED <<env, parserVars, uiVars, callVars>>

\* await fetch(...) and await response.text() came back.
ProxyUpstreamReplied ==
  /\ ppc = "awaitUpstream"
  /\ \E reply \in UpstreamReplies : res' = RelayReply(reply)
  /\ steps' = Append(steps, "reply")
  /\ ppc' = "done"
  /\ UNCHANGED <<env, req, lookup, upstream, parserVars, uiVars, callVars>>

\* await fetch(...) or await response.text() threw.
ProxyUpstreamFailed ==
  /\ ppc = "awaitUpstream"
  /\ \E m \in FetchErrors : res' = CrashReply(m)
  /\ steps' = Append(steps, "catch")
  /\ ppc' = "done"
  /\ UNCHANGED <<env, req, lookup, upstream, parserVars, uiVars, callVars>>

NextProxy == ProxyHandle \/ ProxyUpstreamReplied \/ ProxyUpstreamFailed

SpecProxy == InitProxy /\ [][NextProxy]_vars

(***************************************************************************)
(* Inputs of the parser: texts of up to MaxFields fields, each followed by *)
(* a comma or a line break.                                                *)
(***************************************************************************)
\* Field texts: empty, a padded number followed by text, a padded word.
CsvFields == { <<>>, <<" ", "7", "x">>, <<"a", " ">> }

CsvSeparators == {",", "\n"}

RECURSIVE CsvText(_, _, _)
\* The text of fields fs[1..n] with the separator ss[i] after field i < n.
CsvText(fs, ss, n) ==
  IF n = 1 THEN fs[1]
  ELSE CsvText(fs, ss, n - 1) \o <<ss[n - 1]>> \o fs[n]

(***************************************************************************)
(* Specification of the parser alone: any input text, then one call.       *)
(***************************************************************************)
InitCsv ==
  /\ \E n \in 1..MaxFields :
       \E fs \in [1..n -> CsvFields], ss \in [1..(n - 1) -> CsvSeparators] :
         csvContent = CsvText(fs, ss, n)
  /\ chapters = <<>>
  /\ cpc = "idle"
  /\ env = <<>>
  /\ ProxyIdle
  /\ UiIdle
  /\ CallIdle

\* const chapters = parseCsvToBunnyChapters(csvContent)
ParseCsv ==
  /\ cpc = "idle"
  /\ chapters' = parseCsvToBunnyChapters(csvContent)
  /\ cpc' = "parsed"
  /\ UNCHANGED <<csvContent, proxyVars, uiVars, callVars>>

NextCsv == ParseCsv

SpecCsv == InitCsv /\ [][NextCsv]_vars

(***************************************************************************)
(* updateBunnyChapters (src/services/bunnyService.ts).                     *)
(***************************************************************************)
\* Two entries of BUNNY_LIBRARIES: one without an ID (as eleven of the
\* twelve are), and the one that has an ID.
BUNNY_LIBRARIES ==
  { [name |-> "astro", id |-> <<>>],
    [name |-> "InfiniteLMS", id |-> <<"2", "3", "9", "2", "1", "8">>] }

NoValidChaptersError ==
  <<"No valid chapters found in the data. Please check the CSV format.">>

MissingLibraryError == <<"Missing Library ID.">>

TimedOutError == <<"Request timed out after 15 seconds. Please try again.">>

BackendNotFoundError == <<"CRITICAL ERROR: Backend Function Not Found (404). ...">>

\* fetch('/api/bunny', {method: 'POST', headers, body: JSON.stringify({...})})
FetchRequest(libraryId, videoId, parsed) ==
  [url     |-> "/api/bunny",
   method  |-> "POST",
   headers |-> [k \in {"Content-Type"} |-> <<"application/json">>],
   body    |-> [libraryId |-> Trim(libraryId),
                videoId   |-> Trim(videoId),
                chapters  |-> parsed]]

\* Faulty start: the library ID is not checked before the request is sent.
UpdateStartNoLibraryCheck(apiKey, libraryId, videoId, csv) ==
  LET parsed == parseCsvToBunnyChapters(csv)
  IN  IF Len(parsed) = 0
      THEN [chapters |-> parsed, cpc |-> "rejected", error |-> NoValidChaptersError,
            timer |-> [state |-> "none", delay |-> 0], fetches |-> <<>>]
      ELSE [chapters |-> parsed, cpc |-> "awaitFetch", error |-> <<>>,
            timer |-> [state |-> "armed", delay |-> TimeoutMs],
            fetches |-> <<FetchRequest(libraryId, videoId, parsed)>>]

\* Faulty start: the caller's API key travels in the request.
UpdateStartSendsKey(apiKey, libraryId, videoId, csv) ==
  LET parsed == parseCsvToBunnyChapters(csv)
      sent   == FetchRequest(libraryId, videoId, parsed)
  IN  IF Len(parsed) = 0
      THEN [chapters |-> parsed, cpc |-> "rejected", error |-> NoValidChaptersError,
            timer |-> [state |-> "none", delay |-> 0], fetches |-> <<>>]
      ELSE IF libraryId = <<>>
      THEN [chapters |-> parsed, cpc |-> "rejected", error |-> MissingLibraryError,
            timer |-> [state |-> "none", delay |-> 0], fetches |-> <<>>]
      ELSE [chapters |-> parsed, cpc |-> "awaitFetch", error |-> <<>>,
            timer |-> [state |-> "armed", delay |-> TimeoutMs],
            fetches |-> <<[sent EXCEPT !.headers =
                             [k \in {"Content-Type", "AccessKey"} |->
                                IF k = "AccessKey" THEN apiKey ELSE <<"application/json">>]]>>]

\* updateBunnyChapters from its entry to its first await: the chapters it
\* parsed, and either the Error it throws or the timer it armed and the
\* request it issued.
UpdateStart(apiKey, libraryId, videoId, csv) ==
  LET parsed == parseCsvToBunnyChapters(csv)
  IN  IF Len(parsed) = 0
      THEN [chapters |-> parsed, cpc |-> "rejected", error |-> NoValidChaptersError,
            timer |-> [state |-> "none", delay |-> 0], fetches |-> <<>>]
      ELSE IF libraryId = <<>>
      THEN [chapters |-> parsed, cpc |-> "rejected", error |-> MissingLibraryError,
            timer |-> [state |-> "none", delay |-> 0], fetches |-> <<>>]
      ELSE [chapters |-> parsed, cpc |-> "awaitFetch", error |-> <<>>,
            timer |-> [state |-> "armed", delay |-> TimeoutMs],
            fetches |-> <<FetchRequest(libraryId, videoId, parsed)>>]

\* text.trim().startsWith("<!DOCTYPE") || text.trim().startsWith("<html")
LooksLikeHtml(text) ==
  \/ StartsWith(Trim(text), <<"<!DOCTYPE">>)
  \/ StartsWith(Trim(text), <<"<html">>)

\* The message of the Error thrown for an answer that reports a failure.
ApiErrorMessage(status, data) ==
  (IF Field(data, "error") # <<>> THEN data.error
   ELSE <<"Server Error (", ToString(status), ")">>)
  \o (IF Field(data, "availableEnvVars") # <<>>
      THEN <<"\n[DEBUG] Server sees these keys: ">> \o data.availableEnvVars
      ELSE <<>>)
  \o (IF Field(data, "details") # <<>>
      THEN <<"\n[DETAILS] ">> \o data.details
      ELSE <<>>)

\* What the call does with the text of the answer: the message of the Error
\* it throws, the empty text when it returns.  answer.parses and answer.data
\* stand for JSON.parse(text).
BodyOutcome(status, answer) ==
  IF LooksLikeHtml(answer.text) THEN BackendNotFoundError
  ELSE IF ~answer.parses
  THEN <<"Server returned invalid JSON: ">> \o SubSeq(answer.text, 1, 1) \o <<"...">>
  ELSE IF ~status.ok \/ Field(answer.data, "error") # <<>>
  THEN ApiErrorMessage(status.status, answer.data)
  ELSE <<>>

(***************************************************************************)
(* Inputs of the browser side.                                             *)
(***************************************************************************)
CsvBlank ==
  <<" ", "\n">>

CsvSimple ==
  <<"0", ",", " ", "5", "9", ",", " ", "I", "n", "\n", "6", "0", ",", " ",
     "2", "9", "9", ",", " ", "M", ",", " ", "x">>

CsvUnreadable ==
  <<"a", ",", "b", "\n", "-", ",", "1", ",", "c">>

CsvJsonCompact ==
  <<"[", "{", "\"", "t", "i", "t", "l", "e", "\"", ":", "\"", "I", "n",
     "\"", ",", "\"", "s", "t", "a", "r", "t", "\"", ":", "0", ",", "\"",
     "e", "n", "d", "\"", ":", "5", "9", "}", "]">>

CsvJsonPretty ==
  <<"{", "\n", "\"", "c", "h", "a", "p", "t", "e", "r", "s", "\"", ":",
     "[", "\n", "{", "\"", "t", "i", "t", "l", "e", "\"", ":", "\"", "I",
     "n", "\"", ",", "\n", "\"", "s", "t", "a", "r", "t", "\"", ":", "0",
     ",", "\n", "\"", "e", "n", "d", "\"", ":", "5", "9", "}", "]", "}">>

\* The Simple Format the text area announces, and the full JSON.
SimpleFormatSamples == { CsvSimple }

JsonSamples == { CsvJsonCompact, CsvJsonPretty }

CsvSamples == { CsvBlank, CsvUnreadable } \cup SimpleFormatSamples \cup JsonSamples

TypedLibraryIds == { <<>>, <<" ">>, <<" ", "1", "2", " ">> }

TypedVideoIds == { <<>>, <<" ">>, <<" ", "v", "1", " ">> }

LibraryNames == {""} \cup { lib.name : lib \in BUNNY_LIBRARIES }

\* const isIdHardcoded: the Library ID input is read-only then.
isIdHardcoded(libName) ==
  \E lib \in BUNNY_LIBRARIES : lib.name = libName /\ lib.id # <<>>

\* The contents of the Bunny.net panel, React state of App written by
\* handleLibraryChange (the selector; it sets the library ID to the one of
\* BUNNY_LIBRARIES), handleBunnyConfigChange (the Library ID input, read-only
\* for a library with an ID, and the Video GUID input) and setEditableCsv
\* (the Chapter Data text area).  bunnyConfig.apiKey has no input: it stays ''.
Forms ==
  { f \in [ selectedLibraryName : LibraryNames,
            libraryId : TypedLibraryIds \cup { lib.id : lib \in BUNNY_LIBRARIES },
            videoId : TypedVideoIds,
            editableCsv : CsvSamples \cup {<<>>} ] :
      isIdHardcoded(f.selectedLibraryName) =>
        \E lib \in BUNNY_LIBRARIES :
          lib.name = f.selectedLibraryName /\ lib.id = f.libraryId }

ApiKeyArguments == { <<>>, <<"sk-live">> }

\* The status line and headers of an answer of /api/bunny.
StatusLines ==
  { [ok |-> TRUE, status |-> 200], [ok |-> FALSE, status |-> 400],
    [ok |-> FALSE, status |-> 404], [ok |-> FALSE, status |-> 500] }

\* The texts an answer may carry.
AnswerTexts ==
  { [text |-> <<"{\"success\":true}">>, parses |-> TRUE,
     data |-> [k \in {"success"} |-> <<"true">>]],
    [text |-> <<"{\"error\":...}">>, parses |-> TRUE,
     data |-> [k \in {"error", "availableEnvVars"} |->
                 IF k = "error" THEN <<"Server Error: No API Key found">>
                 ELSE <<"BUNNY_CDN">>]],
    [text |-> <<"{}">>, parses |-> TRUE, data |-> EmptyObject],
    [text |-> <<"\n", "<!DOCTYPE", " html>">>, parses |-> FALSE, data |-> EmptyObject],
    [text |-> <<"OK">>, parses |-> FALSE, data |-> EmptyObject] }

(***************************************************************************)
(* Specification of the browser side: the App's Bunny.net panel and the    *)
(* updateBunnyChapters call, with /api/bunny as the environment.           *)
(***************************************************************************)
InitClient ==
  /\ UiIdle
  /\ CallIdle
  /\ ParserIdle
  /\ env = <<>>
  /\ ProxyIdle

Pending == cpc \in {"awaitFetch", "awaitBody"}

\* The start of a call, by whom and with what.
Begin(via, apiKey, libraryId, videoId, csv) ==
  \E start \in {UpdateStart(apiKey, libraryId, videoId, csv)} :
      /\ call' = [via |-> via, apiKey |-> apiKey, libraryId |-> libraryId,
                  videoId |-> videoId]
      /\ csvContent' = csv
      /\ chapters' = start.chapters
      /\ cpc' = start.cpc
      /\ error' = start.error
      /\ timer' = start.timer
      /\ fetches' = start.fetches
      /\ response' = [ok |-> FALSE, status |-> 0]
      /\ IF via = "ui"
         THEN /\ bunnyStatus' = IF start.cpc = "rejected" THEN "ERROR" ELSE "UPLOADING"
              /\ bunnyError' = start.error
         ELSE UNCHANGED <<bunnyStatus, bunnyError>>

\* handleBunnyUpdate for one content of the panel.
HandleBunnyUpdateWith(form) ==
  IF form.videoId = <<>> \/ Trim(form.videoId) = <<>>
  THEN /\ bunnyError' = <<"Please enter the Video GUID.">>
       /\ UNCHANGED <<bunnyStatus, parserVars, callVars>>
  ELSE IF form.selectedLibraryName = ""
  THEN /\ bunnyError' = <<"Please select a Library.">>
       /\ UNCHANGED <<bunnyStatus, parserVars, callVars>>
  ELSE IF form.libraryId = <<>> \/ Trim(form.libraryId) = <<>>
  THEN /\ bunnyError' = <<"Library ID is missing. Please select a library with a valid ID or enter it manually.">>
       /\ UNCHANGED <<bunnyStatus, parserVars, callVars>>
  ELSE IF form.editableCsv = <<>> \/ Trim(form.editableCsv) = <<>>
  THEN /\ bunnyError' = <<"No chapter data to upload.">>
       /\ UNCHANGED <<bunnyStatus, parserVars, callVars>>
  ELSE Begin("ui", <<>>, Trim(form.libraryId), Trim(form.videoId), form.editableCsv)

\* handleBunnyUpdate: the click on Add/Update Chapters (the button is
\* disabled while UPLOADING), up to the await of updateBunnyChapters or,
\* when that throws at once, to the catch.  One call runs at a time.
HandleBunnyUpdate ==
  /\ bunnyStatus # "UPLOADING"
  /\ ~Pending
  /\ \E form \in Forms : HandleBunnyUpdateWith(form)
  /\ UNCHANGED proxyVars

\* updateBunnyChapters called by any other caller, with any arguments.  A
\* call has its own controller and timer, so one such call is followed.
CallUpdateBunnyChapters ==
  /\ call.via = "none"
  /\ \E apiKey \in ApiKeyArguments, libraryId \in TypedLibraryIds,
        videoId \in TypedVideoIds, csv \in CsvSamples :
       Begin("direct", apiKey, libraryId, videoId, csv)
  /\ UNCHANGED proxyVars

\* The call settles: the promise resolves (message empty) or rejects, and
\* handleBunnyUpdate, when it awaits it, shows the outcome.
Settle(message) ==
  /\ cpc' = IF message = <<>> THEN "resolved" ELSE "rejected"
  /\ error' = message
  /\ IF call.via = "ui"
     THEN /\ bunnyStatus' = IF message = <<>> THEN "SUCCESS" ELSE "ERROR"
          /\ bunnyError' = message
     ELSE UNCHANGED <<bunnyStatus, bunnyError>>
  /\ UNCHANGED <<csvContent, chapters, call, fetches, proxyVars>>

\* await fetch(...) resolved: the status line and the headers arrived.
\* clearTimeout(timeoutId) runs before the body is read.
FetchResolved ==
  /\ cpc = "awaitFetch"
  /\ \E status \in StatusLines : response' = status
  /\ timer' = [timer EXCEPT !.state = "cleared"]
  /\ cpc' = "awaitBody"
  /\ UNCHANGED <<csvContent, chapters, call, error, fetches, uiVars, proxyVars>>

\* await fetch(...) rejected for a failure of the network: the catch clears
\* the timer and throws the error again.
FetchFailed ==
  /\ cpc = "awaitFetch"
  /\ timer' = [timer EXCEPT !.state = "cleared"]
  /\ Settle(<<"Failed to fetch">>)
  /\ UNCHANGED response

\* The timer fires: controller.abort() rejects what the call awaits with an
\* AbortError, which the catch turns into the timed-out Error.
TimerFired ==
  /\ timer.state = "armed"
  /\ Pending
  /\ timer' = [timer EXCEPT !.state = "fired"]
  /\ Settle(TimedOutError)
  /\ UNCHANGED response

\* await response.text() resolved: the body arrived whole.
BodyArrived ==
  /\ cpc = "awaitBody"
  /\ \E answer \in AnswerTexts : Settle(BodyOutcome(response, answer))
  /\ UNCHANGED <<timer, response>>

\* await response.text() rejected: the connection broke within the body.
BodyFailed ==
  /\ cpc = "awaitBody"
  /\ Settle(<<"Failed to fetch">>)
  /\ UNCHANGED <<timer, response>>

NextClient ==
  \/ HandleBunnyUpdate
  \/ CallUpdateBunnyChapters
  \/ FetchResolved
  \/ FetchFailed
  \/ TimerFired
  \/ BodyArrived
  \/ BodyFailed

SpecClient == InitClient /\ [][NextClient]_vars

\* The same, where an armed timer does fire; the network owes nothing.
LiveClient == SpecClient /\ WF_vars(TimerFired)

(***************************************************************************)
(* C5: what the parser is to return, stated on the positions of the line   *)
(* breaks and commas of the text instead of by splitting and joining.      *)
(***************************************************************************)
Min(S) == CHOOSE x \in S : \A y \in S : x <= y

Max(S) == CHOOSE x \in S : \A y \in S : x >= y

IsBlankText(t) == \A i \in 1..Len(t) : t[i] \in WhiteSpace

CommaPositions(l) == { i \in 1..Len(l) : l[i] = "," }

FirstComma(l) == Min(CommaPositions(l))

SecondComma(l) == Min(CommaPositions(l) \ {FirstComma(l)})

FirstField(l) == SubSeq(l, 1, FirstComma(l) - 1)

SecondField(l) == SubSeq(l, FirstComma(l) + 1, SecondComma(l) - 1)

Remainder(l) == SubSeq(l, SecondComma(l) + 1, Len(l))

\* The position of the first digit of a field that reads as an integer:
\* only white space before it, but for a sign right before it.
IntegerStarts(f) ==
  { i \in 1..Len(f) :
      /\ f[i] \in Digits
      /\ \A j \in 1..(i - 1) :
            f[j] \in WhiteSpace \/ (j = i - 1 /\ f[j] \in {"+", "-"}) }

ReadsAsInteger(f) == IntegerStarts(f) # {}

RECURSIVE PlaceValue(_, _, _)
\* The decimal value of the digits f[i..k].
PlaceValue(f, i, k) ==
  IF i > k THEN 0 ELSE DigitVal(f[i]) * 10 ^ (k - i) + PlaceValue(f, i + 1, k)

IntegerRead(f) ==
  LET i == Min(IntegerStarts(f))
      k == Max({ m \in i..Len(f) : \A j \in i..m : f[j] \in Digits })
      v == PlaceValue(f, i, k)
  IN  IF i > 1 /\ f[i - 1] = "-" THEN 0 - v ELSE v

Stripped(t) ==
  LET ink == { i \in 1..Len(t) : t[i] \notin WhiteSpace }
  IN  IF ink = {} THEN <<>> ELSE SubSeq(t, Min(ink), Max(ink))

\* A line that is to give a record.
Qualifies(l) ==
  /\ ~IsBlankText(l)
  /\ Cardinality(CommaPositions(l)) >= 2
  /\ ReadsAsInteger(FirstField(l))
  /\ ReadsAsInteger(SecondField(l))
  /\ ~IsBlankText(Remainder(l))

RecordOf(l) ==
  [start |-> IntegerRead(FirstField(l)),
   end   |-> IntegerRead(SecondField(l)),
   title |-> Stripped(Remainder(l))]

\* The lines of a text, each named by the position before its first
\* character (0, or the position of the line break that opens it).
LineOpeners(t) == {0} \cup { i \in 1..Len(t) : t[i] = "\n" }

LineFrom(t, b) ==
  SubSeq(t, b + 1, Min({ e \in (b + 1)..(Len(t) + 1) : e = Len(t) + 1 \/ t[e] = "\n" }) - 1)

QualifyingLines(t) == { b \in LineOpeners(t) : Qualifies(LineFrom(t, b)) }

\* C5: parseCsvToBunnyChapters returns, in input order, exactly one
\* {start, end, title} record for each non-blank line with at least three
\* comma-separated fields whose first two read as integers and whose
\* remainder (everything after the second comma, trimmed) is not empty;
\* every other line gives nothing, and a title keeps its commas.
C5_OneRecordPerValidLine ==
  cpc = "parsed" =>
    LET Q == QualifyingLines(csvContent)
    IN  /\ Len(chapters) = Cardinality(Q)
        /\ \A b \in Q :
              chapters[Cardinality({ q \in Q : q <= b })] = RecordOf(LineFrom(csvContent, b))

\* A parsed text with a skipped non-blank line and a record whose title
\* holds a comma.
C5_Witness ==
  /\ cpc = "parsed"
  /\ Len(chapters) = 1
  /\ \E i \in 1..Len(chapters[1].title) : chapters[1].title[i] = ","
  /\ \E b \in LineOpeners(csvContent) :
        /\ ~IsBlankText(LineFrom(csvContent, b))
        /\ ~Qualifies(LineFrom(csvContent, b))

(***************************************************************************)
(* Claims about the proxy, stated on the environment and the request.      *)
(***************************************************************************)
\* The values the environment gives the variable called name.
ValuesOf(name) == { env[i].value : i \in { j \in 1..Len(env) : env[j].name = name } }

\* The variable called name is set and not empty.
IsSet(name) == \E v \in ValuesOf(name) : v # <<>>

\* The positions of the variables the scan tier looks at for library L.
ScanCandidates(L) ==
  { i \in 1..Len(env) : StartsWith(env[i].name, KeyPrefix) /\ Includes(env[i].name, L) }

\* The handler looked a credential up for this request.
LookedUp == ppc # "idle" /\ \E i \in 1..Len(steps) : steps[i] = "lookup"

\* The credential the announced priority order gives library L: tier A, else
\* tier B, else tier C; the empty text when no tier gives one.
TierA(L) == IF IsSet(KeyPrefix \o L) THEN CHOOSE v \in ValuesOf(KeyPrefix \o L) : TRUE ELSE <<>>

TierB(L) == IF ScanCandidates(L) = {} THEN <<>> ELSE env[Min(ScanCandidates(L))].value

TierC == IF IsSet(GlobalKeyName) THEN CHOOSE v \in ValuesOf(GlobalKeyName) : TRUE ELSE <<>>

\* C1: for a POST that passed the field validation with trimmed library ID
\* L the credential is tier A's (BUNNY_KEY_L, set and not empty), otherwise
\* tier B's (the first variable named BUNNY_KEY_... containing L), otherwise
\* tier C's (BUNNY_API_KEY); a later tier is used only when every earlier
\* one gave nothing, and the credential found is the AccessKey sent.
C1_CredentialPriority ==
  LookedUp =>
    LET L == lookup.targetLibId
        expected == IF TierA(L) # <<>> THEN TierA(L)
                    ELSE IF TierB(L) # <<>> THEN TierB(L)
                    ELSE TierC
    IN  /\ lookup.apiKey = expected
        /\ lookup.usedEnvKey = GlobalKeyName \o <<" (Global Fallback)">>
             => TierA(L) = <<>> /\ TierB(L) = <<>>
        /\ (lookup.apiKey # <<>> /\ lookup.usedEnvKey # KeyPrefix \o L)
             => TierA(L) = <<>>
        /\ \A i \in 1..Len(upstream) : upstream[i].AccessKey = expected
        /\ (upstream = <<>>) = (expected = <<>>)

\* Tier B decided while the global fallback holds another credential.
C1_Witness ==
  /\ LookedUp
  /\ upstream # <<>>
  /\ TierA(lookup.targetLibId) = <<>>
  /\ TierC # <<>>
  /\ TierC # TierB(lookup.targetLibId)
  /\ upstream[1].AccessKey = TierB(lookup.targetLibId)

\* The non-empty values of the BUNNY_ variables.
Secrets ==
  { env[i].value :
      i \in { j \in 1..Len(env) : StartsWith(env[j].name, BunnyPrefix) /\ env[j].value # <<>> } }

\* C2: no response of the proxy (its status line aside, every field of its
\* body) contains the value of a BUNNY_ variable, and of the request made
\* to the provider only the AccessKey header holds one.
C2_CredentialStaysOnServer ==
  \A v \in Secrets :
    /\ \A k \in DOMAIN res.body : ~Includes(res.body[k], v)
    /\ \A i \in 1..Len(upstream) :
         /\ ~Includes(upstream[i].library, v)
         /\ ~Includes(upstream[i].video, v)
         /\ \A c \in 1..Len(upstream[i].body.chapters) :
              ~Includes(upstream[i].body.chapters[c].title, v)

\* The 'No API Key found' answer listing the names of variables of which
\* one holds a credential.
C2_Witness ==
  /\ ppc = "done"
  /\ res.status = 500
  /\ "availableEnvVars" \in DOMAIN res.body
  /\ \E i \in 1..Len(env) :
       /\ env[i].value \in Secrets
       /\ Includes(res.body.availableEnvVars, env[i].name)

\* The proxy answered 500 'No API Key found'.
NoKeyAnswered == ppc = "done" /\ res.status = 500 /\ "availableEnvVars" \in DOMAIN res.body

\* C3: the proxy answers 'No API Key found for Library ID L' only when
\* BUNNY_KEY_L is not set, no variable named BUNNY_KEY_... containing L is
\* set, and BUNNY_API_KEY is not set (a variable is set when it holds a
\* non-empty value).
C3_NoKeyOnlyWhenNothingConfigured ==
  NoKeyAnswered =>
    /\ ~IsSet(KeyPrefix \o lookup.targetLibId)
    /\ \A i \in ScanCandidates(lookup.targetLibId) : env[i].value = <<>>
    /\ ~IsSet(GlobalKeyName)

\* The name has the form BUNNY_KEY_<anything>_L.
NamedForLibrary(name, L) ==
  /\ StartsWith(name, KeyPrefix)
  /\ EndsWith(name, <<"_">> \o L)
  /\ Len(name) >= Len(KeyPrefix) + 1 + Len(L)

\* C4: when the scan tier chose the credential sent to library L, the
\* variable it took it from is named BUNNY_KEY_<anything>_L.
C4_ScanSelectsOnlyOwnLibrary ==
  \A i \in 1..Len(upstream) :
    (/\ lookup.usedEnvKey # KeyPrefix \o lookup.targetLibId
     /\ lookup.usedEnvKey # GlobalKeyName \o <<" (Global Fallback)">>)
      => NamedForLibrary(lookup.usedEnvKey, upstream[i].library)

\* C6: the proxy calls the provider at most once per request, and only
\* after the method was POST, libraryId, videoId and chapters were present
\* and a credential was found, in this order; the call is a POST to
\* /library/<trimmed libraryId>/videos/<videoId> with the credential as
\* AccessKey and the received chapters as its body.
C6_OneUpstreamCallAfterGates ==
  /\ Len(upstream) <= 1
  /\ upstream # <<>> =>
       LET payload == req.body.payload
       IN  /\ req.method = "POST"
           /\ DOMAIN payload = {"libraryId", "videoId", "chapters"}
           /\ Trim(payload.libraryId) # <<>>
           /\ payload.videoId # <<>>
           /\ lookup.apiKey # <<>>
           /\ \E i \in 1..Len(env) : env[i].value = lookup.apiKey
           /\ SubSeq(steps, 1, 6) = <<"cors", "method", "parse", "fields", "lookup", "forward">>
           /\ upstream[1] = [method    |-> "POST",
                             library   |-> Trim(payload.libraryId),
                             video     |-> payload.videoId,
                             AccessKey |-> lookup.apiKey,
                             body      |-> [chapters |-> payload.chapters]]

\* A request relayed and answered 200.
C6_Witness ==
  /\ ppc = "done"
  /\ Len(upstream) = 1
  /\ res.status = 200
  /\ upstream[1].body.chapters # <<>>

\* The stages the handler ran.
StagesRun == { steps[i] : i \in 1..Len(steps) }

\* C11: an OPTIONS request is answered 200 with no body, a request with any
\* method other than OPTIONS or POST is answered 405 'Method Not Allowed';
\* in neither case was the body parsed, an environment variable read or the
\* provider contacted; every response carries the CORS headers.
C11_MethodGate ==
  /\ (ppc # "idle" /\ req.method # "POST") =>
       /\ ppc = "done"
       /\ req.method = "OPTIONS" => res.status = 200 /\ res.body = EmptyObject
       /\ req.method # "OPTIONS" =>
            res.status = 405 /\ res.body = [error |-> <<"Method Not Allowed">>]
       /\ StagesRun \cap {"parse", "fields", "lookup", "forward", "reply", "catch"} = {}
       /\ lookup = [targetLibId |-> <<>>, apiKey |-> <<>>, usedEnvKey |-> <<>>]
       /\ upstream = <<>>
  /\ ppc = "done" => res.headers = CorsHeaders

\* A DELETE carrying a complete update for a library whose credential is
\* configured was turned away.
C11_Witness ==
  /\ ppc = "done"
  /\ req.method = "DELETE"
  /\ DOMAIN req.body.payload = {"libraryId", "videoId", "chapters"}
  /\ IsSet(KeyPrefix \o Trim(req.body.payload.libraryId))
  /\ res.status = 405

\* The handler answered the POST with 400 and this message, having looked
\* no credential up and made no request to the provider.
RefusedWith(message) ==
  /\ ppc = "done"
  /\ res.status = 400
  /\ res.body = [error |-> message]
  /\ StagesRun \cap {"lookup", "forward", "reply", "catch"} = {}
  /\ lookup.apiKey = <<>> /\ lookup.usedEnvKey = <<>>
  /\ upstream = <<>>

\* The body of the POST is a string that is not valid JSON.
BodyIsInvalidJson == req.body.kind = "string" /\ ~req.body.valid

\* The body of the POST gives no libraryId but white space, or no videoId,
\* or no chapters.
BodyLacksField ==
  /\ ~BodyIsInvalidJson
  /\ \/ "libraryId" \notin DOMAIN req.body.payload
     \/ Trim(req.body.payload.libraryId) = <<>>
     \/ "videoId" \notin DOMAIN req.body.payload
     \/ "chapters" \notin DOMAIN req.body.payload

InvalidJsonRefused ==
  (ppc # "idle" /\ req.method = "POST" /\ BodyIsInvalidJson)
    => RefusedWith(<<"Invalid JSON body">>)

MissingFieldsRefused ==
  (ppc # "idle" /\ req.method = "POST" /\ BodyLacksField)
    => RefusedWith(<<"Missing required fields: libraryId, videoId, or chapters.">>)

NoEmptyChapterListForwarded ==
  \A i \in 1..Len(upstream) : upstream[i].body.chapters # <<>>

\* C12: a POST whose body is a string that is not valid JSON is answered 400
\* 'Invalid JSON body'; a POST whose libraryId is empty after trimming, or
\* whose videoId or chapters is missing, is answered 400 'Missing required
\* fields'; in both cases no credential is looked up and the provider is not
\* contacted; no request is forwarded with an empty chapter list.
C12_InputGate ==
  /\ InvalidJsonRefused
  /\ MissingFieldsRefused
  /\ NoEmptyChapterListForwarded

(***************************************************************************)
(* Claims about the browser side.                                          *)
(***************************************************************************)
\* C7: a call of updateBunnyChapters issues one request, a POST to
\* /api/bunny whose body holds exactly the trimmed libraryId, the trimmed
\* videoId and the parsed chapters; no header and no field of the body
\* holds the apiKey argument; handleBunnyUpdate passes an empty apiKey.
C7_BrowserSendsNoCredential ==
  /\ Len(fetches) <= 1
  /\ Pending => Len(fetches) = 1
  /\ call.via = "ui" => call.apiKey = <<>>
  /\ \A i \in 1..Len(fetches) :
       LET f == fetches[i]
       IN  /\ f.url = "/api/bunny"
           /\ f.method = "POST"
           /\ DOMAIN f.headers = {"Content-Type"}
           /\ DOMAIN f.body = {"libraryId", "videoId", "chapters"}
           /\ f.body.libraryId = Stripped(call.libraryId)
           /\ f.body.videoId = Stripped(call.videoId)
           /\ f.body.chapters = parseCsvToBunnyChapters(csvContent)
           /\ call.apiKey # <<>> =>
                /\ \A h \in DOMAIN f.headers : ~Includes(f.headers[h], call.apiKey)
                /\ ~Includes(f.body.libraryId, call.apiKey)
                /\ ~Includes(f.body.videoId, call.apiKey)
                /\ \A c \in 1..Len(f.body.chapters) :
                     ~Includes(f.body.chapters[c].title, call.apiKey)

\* A call that was given an API key and issued its request.
C7_Witness ==
  /\ call.via = "direct"
  /\ call.apiKey # <<>>
  /\ Len(fetches) = 1
  /\ fetches[1].body.libraryId # call.libraryId

\* C8: every call of updateBunnyChapters that issued its request settles:
\* it resolves or it rejects, also when the headers of the answer arrive
\* and its body never does.
C8_EveryCallSettles == Pending ~> (cpc \in {"resolved", "rejected"})

\* C9: Add/Update Chapters with a valid library and video ID and chapter
\* data in either announced format, the Simple Format or the full JSON,
\* gives a non-empty chapter list and sends it.
C9_AcceptsBothAnnouncedFormats ==
  (call.via = "ui" /\ csvContent \in SimpleFormatSamples \cup JsonSamples) =>
    /\ chapters # <<>>
    /\ Len(fetches) = 1
    /\ error # NoValidChaptersError

\* C10: a call whose CSV gives no valid chapter rejects with 'No valid
\* chapters found ...', and a call whose CSV gives one but whose libraryId
\* is empty rejects with 'Missing Library ID.'; neither starts a fetch nor
\* leaves a timer armed.
C10_NoRequestForUnsendableInput ==
  call.via # "none" =>
    /\ QualifyingLines(csvContent) = {} =>
         /\ cpc = "rejected"
         /\ error = NoValidChaptersError
         /\ fetches = <<>>
         /\ timer.state = "none"
    /\ (QualifyingLines(csvContent) # {} /\ call.libraryId = <<>>) =>
         /\ cpc = "rejected"
         /\ error = MissingLibraryError
         /\ fetches = <<>>
         /\ timer.state = "none"

\* A call with chapters to send and no library ID, rejected.
C10_Witness ==
  /\ call.via = "direct"
  /\ call.libraryId = <<>>
  /\ chapters # <<>>
  /\ cpc = "rejected"
  /\ error = MissingLibraryError

====
